---- MODULE Spec2Model ----
(***************************************************************************)
(* GitlabCommonInterfacesService                                           *)
(* (src/app/features/issue/providers/gitlab/                               *)
(*  gitlab-common-interfaces.service.ts) as a state machine.               *)
(*                                                                         *)
(* One behaviour is one invocation of one of the service's operations:     *)
(*   issueLink$, searchIssues$, getFreshDataForIssueTask,                  *)
(*   getFreshDataForIssueTasks.                                            *)
(* Every await of an API response is a step boundary; the synchronous code *)
(* between two awaits is one action.                                       *)
(*                                                                         *)
(* Representation of JavaScript values:                                    *)
(*   text            a sequence of one-character strings                   *)
(*   optional value  None == <<>> (undefined / null) or Some(v) == <<v>>   *)
(*   date string     a record [s |-> seconds, ms |-> milliseconds] since   *)
(*                   the epoch; getTime converts it to a number            *)
(***************************************************************************)
EXTENDS Integers, Sequences, FiniteSets

VARIABLES
    op,         \* the operation that was invoked
    pc,         \* position of the invocation
    task,       \* argument of getFreshDataForIssueTask
    tasks,      \* the caller's array passed to getFreshDataForIssueTasks
    linkArg,    \* issueId argument of issueLink$
    cfg,        \* what ProjectService.getGitlabCfgForProject$ emits first
    remote,     \* the remote tracker: issue number -> issue
    cfgReads,   \* number of _getCfgOnce$ subscriptions
    apiCalls,   \* log of the calls made on GitlabApiService
    issues,     \* local `issues` of getFreshDataForIssueTasks
    i,          \* local `i` of getFreshDataForIssueTasks
    checked,    \* locals of each change detection that ran
    result,     \* the value the promise resolved with / the mapped link
    emitted,    \* the values searchIssues$ emitted to its subscriber
    error       \* the error the invocation failed with

vars == <<op, pc, task, tasks, linkArg, cfg, remote, cfgReads, apiCalls,
          issues, i, checked, result, emitted, error>>

-----------------------------------------------------------------------------
(* Bounds of the model *)

MaxComments == 2
MaxLen == 2
MaxTasks == 130

-----------------------------------------------------------------------------
(* JavaScript values *)

None == <<>>

Some(v) == <<v>>

\* truthiness of an optional text: undefined, null and '' are falsy
Truthy(o) == o # None /\ o[1] # <<>>

Min(a, b) == IF a < b THEN a ELSE b

DigitChars == <<"0", "1", "2", "3", "4", "5", "6", "7", "8", "9">>

\* UTF-16 code unit order restricted to the decimal digits
CharCode(c) == CHOOSE d \in 0..9 : DigitChars[d + 1] = c

\* String(n) for a non-negative integer
RECURSIVE NumToString(_)
NumToString(n) ==
    IF n < 10 THEN <<DigitChars[n + 1]>>
    ELSE NumToString(n \div 10) \o <<DigitChars[(n % 10) + 1]>>

\* unary plus on a string of decimal digits
RECURSIVE ToNumber(_)
ToNumber(s) ==
    IF s = <<>> THEN 0
    ELSE 10 * ToNumber(SubSeq(s, 1, Len(s) - 1)) + CharCode(s[Len(s)])

\* a < b in the order Array.prototype.sort uses without a comparator:
\* the elements' string forms compared by code units
RECURSIVE StrLess(_, _)
StrLess(a, b) ==
    IF b = <<>> THEN FALSE
    ELSE IF a = <<>> THEN TRUE
    ELSE IF CharCode(Head(a)) # CharCode(Head(b))
         THEN CharCode(Head(a)) < CharCode(Head(b))
    ELSE StrLess(Tail(a), Tail(b))

\* insertion of x behind every element that does not sort after it
RECURSIVE InsertDefault(_, _)
InsertDefault(x, s) ==
    IF s = <<>> THEN <<x>>
    ELSE IF StrLess(NumToString(x), NumToString(Head(s))) THEN <<x>> \o s
    ELSE <<Head(s)>> \o InsertDefault(x, Tail(s))

\* numbers.sort(): ascending by string form
RECURSIVE JsDefaultSort(_)
JsDefaultSort(s) ==
    IF s = <<>> THEN <<>>
    ELSE InsertDefault(s[Len(s)], JsDefaultSort(SubSeq(s, 1, Len(s) - 1)))

\* new Date(d).getTime()
getTime(d) == d.s * 1000 + d.ms

-----------------------------------------------------------------------------
(* Change detection, lines 97-112 and 161-174 *)

\* the filter applied as soon as a username is configured
commentsByOthersAnyLength(c, issue) ==
    IF Truthy(c.filterUsername) /\ Len(c.filterUsername[1]) > 0
    THEN SelectSeq(issue.comments,
                   LAMBDA comment : comment.author.username # c.filterUsername[1])
    ELSE issue.comments

\* the filter of lines 98-103 / 162-167
commentsByOthers(c, issue) ==
    IF Truthy(c.filterUsername) /\ Len(c.filterUsername[1]) > 1
    THEN SelectSeq(issue.comments,
                   LAMBDA comment : comment.author.username # c.filterUsername[1])
    ELSE issue.comments

CreatedTime(comment) == getTime(comment.created_at)

\* [...commentsByOthers.map(created_at time), issueUpdate].sort()
updates(c, issue) ==
    LET others == commentsByOthers(c, issue)
    IN  JsDefaultSort([k \in 1..Len(others) |-> CreatedTime(others[k])]
                      \o <<getTime(issue.updated_at)>>)

lastRemoteUpdate(c, issue) == updates(c, issue)[Len(updates(c, issue))]

\* task.issueLastUpdated || 0
OrZero(o) == IF o = None THEN 0 ELSE o[1]

wasUpdated(t, c, issue) == lastRemoteUpdate(c, issue) > OrZero(t.issueLastUpdated)

\* `#${id} ${title}`
FormatIssueTitle(id, title) == <<"#">> \o NumToString(id) \o <<" ">> \o title

TruncLen == 20

\* util/truncate: the title cut to a display length
truncate(s) == IF Len(s) > TruncLen THEN SubSeq(s, 1, TruncLen) ELSE s

FormatIssueTitleForSnack(id, title) == truncate(FormatIssueTitle(id, title))

getAddTaskData(issue) ==
    [title            |-> FormatIssueTitle(issue.number, issue.title),
     issuePoints      |-> issue.weight,
     issueWasUpdated  |-> FALSE,
     issueLastUpdated |-> getTime(issue.updated_at)]

\* {issueWasUpdated: true, ...this.getAddTaskData(issue)}
TaskChangesSpreadLast(issue) == getAddTaskData(issue)

\* {...this.getAddTaskData(issue), issueWasUpdated: true}
TaskChanges(issue) == [getAddTaskData(issue) EXCEPT !.issueWasUpdated = TRUE]

\* the locals of one run of the change detection
Detection(t, c, issue) ==
    [task             |-> t,
     issue            |-> issue,
     commentsByOthers |-> commentsByOthers(c, issue),
     updates          |-> updates(c, issue),
     lastRemoteUpdate |-> lastRemoteUpdate(c, issue),
     wasUpdated       |-> wasUpdated(t, c, issue)]

-----------------------------------------------------------------------------
(* getFreshDataForIssueTasks: sorting and batching, lines 133-152 *)

paramsCount == 59

\* (a, b) => +(a.issueId) - +(b.issueId)
compareTasksAscending(a, b) == ToNumber(a.issueId[1]) - ToNumber(b.issueId[1])

\* (a, b) => +(b.issueId) - +(a.issueId)
compareTasks(a, b) == ToNumber(b.issueId[1]) - ToNumber(a.issueId[1])

\* does the stable sort put s[q] in front of s[p]?
GoesBefore(s, q, p) ==
    \/ compareTasks(s[q], s[p]) < 0
    \/ compareTasks(s[q], s[p]) = 0 /\ q < p

\* tasks.sort(compareTasks): Array.prototype.sort is stable, so an element's
\* place is fixed by the number of elements that go in front of it
SortTasks(s) ==
    LET n == Len(s)
        place == {<<1 + Cardinality({q \in 1..n : GoesBefore(s, q, p)}), p>> : p \in 1..n}
    IN  [r \in 1..n |-> s[(CHOOSE e \in place : e[1] = r)[2]]]

\* the inner loop run with j <= paramsCount
ChunkIdsOneMore(ts, i0) ==
    [j \in 1..Min(paramsCount + 1, Len(ts) - i0) |-> ts[i0 + j].issueId[1]]

\* the inner for loop of lines 145-148, started with i = i0
ChunkIds(ts, i0) ==
    [j \in 1..Min(paramsCount, Len(ts) - i0) |-> ts[i0 + j].issueId[1]]

\* one element pushed to updatedIssues, lines 177-184
UpdatedEntry(pair) ==
    [task        |-> pair.task,
     taskChanges |-> TaskChanges(pair.issue),
     issue       |-> pair.issue]

\* the detection loop of lines 160-186: tasks[i] is held against issues[i]
UpdatedIssues(ts, iss, c) ==
    LET pairs == [k \in 1..Len(ts) |-> [task |-> ts[k], issue |-> iss[k]]]
        changed == SelectSeq(pairs, LAMBDA pair : wasUpdated(pair.task, c, pair.issue))
    IN  [k \in 1..Len(changed) |-> UpdatedEntry(changed[k])]

-----------------------------------------------------------------------------
(* GitlabApiService (not part of this file): what a successful call yields *)

getById(n) == remote[n]

\* the numbers of S from the greatest to the least
DescSeq(S) ==
    [r \in 1..Cardinality(S) |->
        CHOOSE x \in S : Cardinality({y \in S : y > x}) = r - 1]

\* the requested issues in descending order of their number
getByIds(ids) ==
    LET numbers == DescSeq({ToNumber(ids[k]) : k \in 1..Len(ids)})
    IN  [k \in 1..Len(numbers) |-> getById(numbers[k])]

-----------------------------------------------------------------------------
(* issueLink$, lines 46-62 *)

GITLAB_BASE_URL == <<"g", "l", "/">>

IssuesPath(issueId) == <<"/", "i", "s", "s", "u", "e", "s", "/">> \o NumToString(issueId)

\* s.replace(/%2F/g, '/')
RECURSIVE DecodeSlashes(_)
DecodeSlashes(s) ==
    IF s = <<>> THEN <<>>
    ELSE IF Len(s) >= 3 /\ SubSeq(s, 1, 3) = <<"%", "2", "F">>
         THEN <<"/">> \o DecodeSlashes(SubSeq(s, 4, Len(s)))
    ELSE <<Head(s)>> \o DecodeSlashes(Tail(s))

\* url.match(/.*\/$/) ? url : `${url}/`
fixedUrl(url) == IF url[Len(url)] = "/" THEN url ELSE url \o <<"/">>

IssueLink(c, issueId) ==
    IF Truthy(c.gitlabBaseUrl)
    THEN fixedUrl(c.gitlabBaseUrl[1]) \o c.project \o IssuesPath(issueId)
    ELSE GITLAB_BASE_URL \o DecodeSlashes(c.project) \o IssuesPath(issueId)

-----------------------------------------------------------------------------
(* The inputs the invocations are checked on *)

Txt12 == <<"1", "2">>
ProjP == <<"p">>
UserA == <<"a">>
UserBob == <<"b", "o", "b">>
UserEve == <<"e", "v", "e">>
TitleFix == <<"F", "i", "x", " ", "b", "u", "g">>
TitleDocs == <<"D", "o", "c", "s">>

MkDate(t) == [s |-> t \div 1000, ms |-> t % 1000]

\* timestamps with three and with four decimal digits
Dates == {MkDate(999), MkDate(1000), MkDate(1005)}

Users == {UserA, UserBob, UserEve}

Comments == [author : [username : Users], created_at : Dates]

CommentLists == UNION {[1..n -> Comments] : n \in 0..MaxComments}

LastUpdates == {None, Some(999), Some(1000)}

Filters == {None, Some(<<>>), Some(UserA), Some(UserBob)}

Cfg(filter, search, base, project) ==
    [filterUsername           |-> filter,
     isSearchIssuesFromGitlab |-> search,
     gitlabBaseUrl            |-> base,
     project                  |-> project]

NoTask == [projectId |-> None, issueId |-> None, issueLastUpdated |-> None]

\* the issue the remote holds under number n in the list scenarios
IssueFor(n) ==
    [number     |-> n,
     title      |-> IF n % 2 = 0 THEN TitleFix ELSE TitleDocs,
     weight     |-> n % 4,
     updated_at |-> MkDate(996 + (n % 6)),
     comments   |-> IF n % 3 = 0 THEN <<>>
                    ELSE <<[author     |-> [username |-> IF n % 3 = 1 THEN UserBob
                                                         ELSE UserEve],
                            created_at |-> MkDate(994 + (n % 9))]>>]

SmallIds == {2, 9, 10}

SmallTasks ==
    [projectId        : {None, Some(ProjP)},
     issueId          : {Some(NumToString(n)) : n \in SmallIds},
     issueLastUpdated : {None, Some(1000)}]

\* lists of tasks that are linked to different issues
SmallTaskLists ==
    {ts \in UNION {[1..n -> SmallTasks] : n \in 0..MaxLen} :
        \A a, b \in 1..Len(ts) : a # b => ts[a].issueId # ts[b].issueId}

BigTask(n) ==
    [projectId        |-> Some(ProjP),
     issueId          |-> Some(NumToString(n)),
     issueLastUpdated |-> IF n % 2 = 0 THEN Some(1000) ELSE None]

\* list lengths around the chunk boundaries
BigLens ==
    {n \in {1, paramsCount - 1, paramsCount, paramsCount + 1,
            2 * paramsCount, 2 * paramsCount + 1, MaxTasks - 1, MaxTasks} : n >= 1}

Ascending(n) == [k \in 1..n |-> BigTask(k)]

Descending(n) == [k \in 1..n |-> BigTask(n + 1 - k)]

\* the odd issue numbers upwards, then the even ones downwards
Zigzag(n) ==
    SelectSeq(Ascending(n), LAMBDA t : ToNumber(t.issueId[1]) % 2 = 1)
    \o SelectSeq(Descending(n), LAMBDA t : ToNumber(t.issueId[1]) % 2 = 0)

BigTaskLists == UNION {{Ascending(n), Descending(n), Zigzag(n)} : n \in BigLens}

BaseUrls ==
    {None, Some(<<>>), Some(<<"h">>), Some(<<"h", "/">>), Some(<<"h", "/", "/">>)}

Projects == {<<"g">>, <<"g", "%", "2", "F", "p">>, <<"g", "%", "2", "F", "s", "%", "2", "F", "p">>}

SearchResults == {<<>>, <<[title |-> TitleFix, issueType |-> "GITLAB"]>>}

Idle ==
    /\ pc = "start"
    /\ cfgReads = 0
    /\ apiCalls = <<>>
    /\ issues = <<>>
    /\ i = 0
    /\ checked = <<>>
    /\ result = None
    /\ emitted = <<>>
    /\ error = None

InitFetchOne ==
    /\ op = "fetchOne"
    /\ \/ /\ task \in [projectId : {Some(ProjP)}, issueId : {Some(Txt12)},
                       issueLastUpdated : LastUpdates]
          /\ \E u \in Dates, cs \in CommentLists, w \in {3}, t \in {TitleFix} :
                remote = [n \in {12} |->
                            [number |-> n, title |-> t, weight |-> w,
                             updated_at |-> u, comments |-> cs]]
          /\ \E f \in Filters : cfg = Some(Cfg(f, FALSE, None, <<"g">>))
       \/ /\ task \in [projectId : {None, Some(<<>>), Some(ProjP)},
                       issueId : {None, Some(<<>>), Some(Txt12)},
                       issueLastUpdated : {None, Some(999)}]
          /\ remote = [n \in {12} |-> IssueFor(n)]
          /\ cfg = Some(Cfg(None, FALSE, None, <<"g">>))
    /\ tasks = <<>>
    /\ linkArg = 0

InitFetchMany ==
    /\ op = "fetchMany"
    /\ \/ /\ tasks \in SmallTaskLists
          /\ remote = [n \in SmallIds |-> IssueFor(n)]
          /\ \E f \in {None, Some(UserBob)} : cfg = Some(Cfg(f, FALSE, None, <<"g">>))
       \/ /\ tasks \in BigTaskLists
          /\ remote = [n \in 1..MaxTasks |-> IssueFor(n)]
          /\ cfg = Some(Cfg(Some(UserEve), FALSE, None, <<"g">>))
    /\ task = NoTask
    /\ linkArg = 0

InitSearch ==
    /\ op = "search"
    /\ cfg \in {None} \cup {Some(Cfg(None, b, None, <<"g">>)) : b \in BOOLEAN}
    /\ remote = [n \in SmallIds |-> IssueFor(n)]
    /\ task = NoTask
    /\ tasks = <<>>
    /\ linkArg = 0

InitLink ==
    /\ op = "link"
    /\ \E b \in BaseUrls, p \in Projects : cfg = Some(Cfg(None, FALSE, b, p))
    /\ linkArg \in {7, 12}
    /\ remote = [n \in SmallIds |-> IssueFor(n)]
    /\ task = NoTask
    /\ tasks = <<>>

Init == Idle /\ (InitFetchOne \/ InitFetchMany \/ InitSearch \/ InitLink)

-----------------------------------------------------------------------------
(* Bookkeeping of the calls on GitlabApiService *)

Call(fn, arg) == [fn |-> fn, arg |-> arg, status |-> "pending"]

\* the pending call (always the last one made) ends with the given status
Settle(calls, status) == [calls EXCEPT ![Len(calls)].status = status]

-----------------------------------------------------------------------------
(* getFreshDataForIssueTask, lines 82-125 *)

\* lines 87-92: the error thrown before anything is read, if any
FetchOnePrecondition(t) ==
    IF ~Truthy(t.projectId) THEN Some("No projectId")
    ELSE IF ~Truthy(t.issueId) THEN Some("No issueId")
    ELSE None

\* lines 114-124: the value the promise resolves with
FetchOneResult(t, c, issue) ==
    IF wasUpdated(t, c, issue)
    THEN Some([taskChanges |-> TaskChanges(issue),
               issue       |-> issue,
               issueTitle  |-> FormatIssueTitleForSnack(issue.number, issue.title)])
    ELSE None

\* lines 87-92 throw
FetchOneThrow ==
    /\ op = "fetchOne" /\ pc = "start"
    /\ FetchOnePrecondition(task) # None
    /\ error' = FetchOnePrecondition(task)
    /\ pc' = "rejected"
    /\ UNCHANGED <<op, task, tasks, linkArg, cfg, remote, cfgReads, apiCalls,
                   issues, i, checked, result, emitted>>

\* lines 94-95: the config is read, getById$ is called and awaited
FetchOneCall ==
    /\ op = "fetchOne" /\ pc = "start"
    /\ FetchOnePrecondition(task) = None
    /\ cfgReads' = cfgReads + 1
    /\ apiCalls' = Append(apiCalls, Call("getById", ToNumber(task.issueId[1])))
    /\ pc' = "awaitIssue"
    /\ UNCHANGED <<op, task, tasks, linkArg, cfg, remote, issues, i, checked,
                   result, emitted, error>>

\* lines 97-124 once the issue has arrived
FetchOneResolve ==
    /\ op = "fetchOne" /\ pc = "awaitIssue"
    /\ LET issue == getById(apiCalls[Len(apiCalls)].arg)
       IN  /\ checked' = <<Detection(task, cfg[1], issue)>>
           /\ result' = FetchOneResult(task, cfg[1], issue)
    /\ apiCalls' = Settle(apiCalls, "returned")
    /\ pc' = "resolved"
    /\ UNCHANGED <<op, task, tasks, linkArg, cfg, remote, cfgReads, issues, i,
                   emitted, error>>

\* the awaited getById$ fails: the error leaves the async function
FetchOneReject ==
    /\ op = "fetchOne" /\ pc = "awaitIssue"
    /\ apiCalls' = Settle(apiCalls, "failed")
    /\ error' = Some("remote")
    /\ pc' = "rejected"
    /\ UNCHANGED <<op, task, tasks, linkArg, cfg, remote, cfgReads, issues, i,
                   checked, result, emitted>>

-----------------------------------------------------------------------------
(* getFreshDataForIssueTasks, lines 127-188 *)

\* the check of line 135 left out
FetchManyPreconditionUnchecked(ts) ==
    IF ts = <<>> THEN Some("TypeError") ELSE None

\* lines 134-137 on the sorted array: the error thrown, if any
FetchManyPrecondition(ts) ==
    IF ts = <<>> THEN Some("TypeError")
    ELSE IF ~Truthy(ts[1].projectId) THEN Some("No projectId")
    ELSE None

\* is the while loop of line 144 over?
LoopDone(ts, i0) == ~(i0 < Len(ts))

\* lines 133-137: the array is sorted in place, then the check throws
FetchManyThrow ==
    /\ op = "fetchMany" /\ pc = "start"
    /\ tasks' = SortTasks(tasks)
    /\ FetchManyPrecondition(tasks') # None
    /\ error' = FetchManyPrecondition(tasks')
    /\ pc' = "rejected"
    /\ UNCHANGED <<op, task, linkArg, cfg, remote, cfgReads, apiCalls, issues, i,
                   checked, result, emitted>>

\* lines 133-150: sort, config read, first chunk sent and awaited
FetchManyCall ==
    /\ op = "fetchMany" /\ pc = "start"
    /\ tasks' = SortTasks(tasks)
    /\ FetchManyPrecondition(tasks') = None
    /\ cfgReads' = cfgReads + 1
    /\ issues' = <<>>
    /\ apiCalls' = Append(apiCalls, Call("getByIds", ChunkIds(tasks', 0)))
    /\ i' = Len(ChunkIds(tasks', 0))
    /\ pc' = "awaitChunk"
    /\ UNCHANGED <<op, task, linkArg, cfg, remote, checked, result, emitted, error>>

\* lines 144-151: a chunk has arrived and the loop goes round again
FetchManyNextChunk ==
    /\ op = "fetchMany" /\ pc = "awaitChunk"
    /\ ~LoopDone(tasks, i)
    /\ issues' = issues \o getByIds(apiCalls[Len(apiCalls)].arg)
    /\ apiCalls' = Append(Settle(apiCalls, "returned"),
                          Call("getByIds", ChunkIds(tasks, i)))
    /\ i' = i + Len(ChunkIds(tasks, i))
    /\ UNCHANGED <<op, pc, task, tasks, linkArg, cfg, remote, cfgReads, checked,
                   result, emitted, error>>

\* lines 149-187: the last chunk has arrived; the detection loop runs
FetchManyResolve ==
    /\ op = "fetchMany" /\ pc = "awaitChunk"
    /\ LoopDone(tasks, i)
    /\ issues' = issues \o getByIds(apiCalls[Len(apiCalls)].arg)
    /\ apiCalls' = Settle(apiCalls, "returned")
    /\ checked' = [k \in 1..Len(tasks) |-> Detection(tasks[k], cfg[1], issues'[k])]
    /\ result' = UpdatedIssues(tasks, issues', cfg[1])
    /\ i' = Len(tasks)
    /\ pc' = "resolved"
    /\ UNCHANGED <<op, task, tasks, linkArg, cfg, remote, cfgReads, emitted, error>>

\* a failed chunk caught and skipped while chunks are left to fetch
FetchManyRejectSkipChunk ==
    /\ op = "fetchMany" /\ pc = "awaitChunk"
    /\ IF LoopDone(tasks, i)
       THEN /\ apiCalls' = Settle(apiCalls, "failed")
            /\ error' = Some("remote")
            /\ pc' = "rejected"
            /\ i' = i
       ELSE /\ apiCalls' = Append(Settle(apiCalls, "failed"),
                                  Call("getByIds", ChunkIds(tasks, i)))
            /\ i' = i + Len(ChunkIds(tasks, i))
            /\ UNCHANGED <<error, pc>>
    /\ UNCHANGED <<op, task, tasks, linkArg, cfg, remote, cfgReads, issues,
                   checked, result, emitted>>

\* an awaited getByIds$ fails: the error leaves the async function
FetchManyReject ==
    /\ op = "fetchMany" /\ pc = "awaitChunk"
    /\ apiCalls' = Settle(apiCalls, "failed")
    /\ error' = Some("remote")
    /\ pc' = "rejected"
    /\ UNCHANGED <<op, task, tasks, linkArg, cfg, remote, cfgReads, issues, i,
                   checked, result, emitted>>

-----------------------------------------------------------------------------
(* searchIssues$, lines 70-80 *)

\* line 73: gitlabCfg && gitlabCfg.isSearchIssuesFromGitlab
SearchPermitted(c) == c # None /\ c[1].isSearchIssuesFromGitlab

\* what the observable returned by the catchError selector emits:
\* from([]) emits the elements of the empty array, that is, nothing
CatchErrorEmits == <<>>

\* line 77: of([]) emits one empty list and completes
SearchOff ==
    /\ op = "search" /\ pc = "start"
    /\ ~SearchPermitted(cfg)
    /\ cfgReads' = cfgReads + 1
    /\ emitted' = Append(emitted, <<>>)
    /\ pc' = "completed"
    /\ UNCHANGED <<op, task, tasks, linkArg, cfg, remote, apiCalls, issues, i,
                   checked, result, error>>

\* lines 74-75: switchMap subscribes to searchIssueInProject$
SearchCall ==
    /\ op = "search" /\ pc = "start"
    /\ SearchPermitted(cfg)
    /\ cfgReads' = cfgReads + 1
    /\ apiCalls' = Append(apiCalls, Call("searchIssueInProject", <<"f", "i", "x">>))
    /\ pc' = "awaitSearch"
    /\ UNCHANGED <<op, task, tasks, linkArg, cfg, remote, issues, i, checked,
                   result, emitted, error>>

\* the API client emits its result list and completes
SearchNext ==
    /\ op = "search" /\ pc = "awaitSearch"
    /\ \E found \in SearchResults : emitted' = Append(emitted, found)
    /\ apiCalls' = Settle(apiCalls, "returned")
    /\ pc' = "completed"
    /\ UNCHANGED <<op, task, tasks, linkArg, cfg, remote, cfgReads, issues, i,
                   checked, result, error>>

\* line 76: the API client errors; catchError switches to its replacement
SearchError ==
    /\ op = "search" /\ pc = "awaitSearch"
    /\ emitted' = emitted \o CatchErrorEmits
    /\ apiCalls' = Settle(apiCalls, "failed")
    /\ pc' = "completed"
    /\ UNCHANGED <<op, task, tasks, linkArg, cfg, remote, cfgReads, issues, i,
                   checked, result, error>>

-----------------------------------------------------------------------------
(* issueLink$, lines 46-62 *)

IssueLinkMap ==
    /\ op = "link" /\ pc = "start"
    /\ cfgReads' = cfgReads + 1
    /\ result' = Some(IssueLink(cfg[1], linkArg))
    /\ pc' = "completed"
    /\ UNCHANGED <<op, task, tasks, linkArg, cfg, remote, apiCalls, issues, i,
                   checked, emitted, error>>

-----------------------------------------------------------------------------

Next ==
    \/ FetchOneThrow
    \/ FetchOneCall
    \/ FetchOneResolve
    \/ FetchOneReject
    \/ FetchManyThrow
    \/ FetchManyCall
    \/ FetchManyNextChunk
    \/ FetchManyResolve
    \/ FetchManyReject
    \/ SearchOff
    \/ SearchCall
    \/ SearchNext
    \/ SearchError
    \/ IssueLinkMap

Spec == Init /\ [][Next]_vars

-----------------------------------------------------------------------------
(* Properties *)

SeqRange(s) == {s[k] : k \in 1..Len(s)}

MaxOf(S) == CHOOSE x \in S : \A y \in S : y <= x

IssueNumberOf(t) == ToNumber(t.issueId[1])

\* the numerically latest of the issue's update and the others' comments
NumericLastRemoteUpdate(d) ==
    MaxOf({getTime(d.issue.updated_at)}
          \cup {getTime(comment.created_at) : comment \in SeqRange(d.commentsByOthers)})

\* did the invocation report a change for the detection d?
ReportedChanged(d) ==
    IF op = "fetchOne" THEN result # None
    ELSE \E e \in SeqRange(result) : e.task = d.task

\* C1: in fetchOne and for every pair of fetchMany a change is reported if
\* and only if the numeric maximum of the issue's update time and the
\* creation times of the comments by others is greater than the task's
\* issueLastUpdated (0 when missing).
C1_ChangeIffNumericMaxNewer ==
    (op \in {"fetchOne", "fetchMany"} /\ pc = "resolved") =>
        \A k \in 1..Len(checked) :
            ReportedChanged(checked[k])
                <=> (NumericLastRemoteUpdate(checked[k])
                        > OrZero(checked[k].task.issueLastUpdated))

\* the task fetchMany takes the project from: the one with the greatest issue number
ConsultedTask(ts) ==
    CHOOSE t \in SeqRange(ts) : \A u \in SeqRange(ts) : IssueNumberOf(u) <= IssueNumberOf(t)

\* C2: fetchOne on a task without projectId or issueId, and fetchMany on a
\* non-empty list whose project cannot be established, fail with
\* 'No projectId' / 'No issueId' without any config read or API call.
C2_PreconditionBeforeAnyCall ==
    /\ (op = "fetchOne" /\ pc # "start" /\ ~Truthy(task.projectId)) =>
            /\ pc = "rejected" /\ error = Some("No projectId")
            /\ cfgReads = 0 /\ apiCalls = <<>>
    /\ (op = "fetchOne" /\ pc # "start" /\ Truthy(task.projectId)
            /\ ~Truthy(task.issueId)) =>
            /\ pc = "rejected" /\ error = Some("No issueId")
            /\ cfgReads = 0 /\ apiCalls = <<>>
    /\ (op = "fetchMany" /\ pc # "start" /\ tasks # <<>>
            /\ ~Truthy(ConsultedTask(tasks).projectId)) =>
            /\ pc = "rejected" /\ error = Some("No projectId")
            /\ cfgReads = 0 /\ apiCalls = <<>>

C2_Witness ==
    /\ op = "fetchMany" /\ pc = "rejected" /\ error = Some("No projectId")
    /\ Len(tasks) = 2
    /\ \A k \in 1..2 : ~Truthy(tasks[k].projectId)
    /\ cfgReads = 0 /\ apiCalls = <<>>

\* the p-th identifier sent, counted over the calls in call order
SentId(p) == apiCalls[((p - 1) \div paramsCount) + 1].arg[((p - 1) % paramsCount) + 1]

SentCount == IF apiCalls = <<>> THEN 0
             ELSE (Len(apiCalls) - 1) * paramsCount + Len(apiCalls[Len(apiCalls)].arg)

\* C3: fetchMany on n >= 1 tasks makes ceil(n/59) getByIds calls one after
\* another; each carries 1..59 identifiers, only the last may carry fewer
\* than 59, and the chunks in call order are the task identifiers in
\* descending numeric order.
C3_SequentialChunksOf59 ==
    (op = "fetchMany" /\ apiCalls # <<>>) =>
        /\ \A k \in 1..Len(apiCalls) :
              /\ apiCalls[k].fn = "getByIds"
              /\ Len(apiCalls[k].arg) \in 1..59
              /\ k < Len(apiCalls) =>
                    /\ apiCalls[k].status = "returned"
                    /\ Len(apiCalls[k].arg) = 59
        /\ Len(apiCalls) <= (Len(tasks) + 58) \div 59
        /\ \A p \in 1..SentCount :
              /\ \E t \in SeqRange(tasks) : t.issueId[1] = SentId(p)
              /\ p > 1 => ToNumber(SentId(p - 1)) > ToNumber(SentId(p))
        /\ pc = "resolved" =>
              /\ Len(apiCalls) = (Len(tasks) + 58) \div 59
              /\ SentCount = Len(tasks)

C3_Witness ==
    /\ op = "fetchMany" /\ pc = "resolved"
    /\ Len(tasks) = 130
    /\ Len(apiCalls) = 3
    /\ Len(apiCalls[1].arg) = 59 /\ Len(apiCalls[2].arg) = 59
    /\ Len(apiCalls[3].arg) = 12

\* C4: with an API client that returns the requested issues in descending
\* order, every pair fetchMany compares, and every entry it returns, joins a
\* task with the issue whose number is the task's issueId; every task is
\* compared once.
C4_TaskMeetsItsOwnIssue ==
    (op = "fetchMany" /\ pc = "resolved") =>
        /\ Len(checked) = Len(tasks)
        /\ \A t \in SeqRange(tasks) : \E k \in 1..Len(checked) : checked[k].task = t
        /\ \A k \in 1..Len(checked) :
              /\ checked[k].issue.number = IssueNumberOf(checked[k].task)
              /\ checked[k].issue = remote[IssueNumberOf(checked[k].task)]
        /\ \A e \in SeqRange(result) :
              /\ e.task \in SeqRange(tasks)
              /\ e.issue.number = IssueNumberOf(e.task)
              /\ e.issue = remote[IssueNumberOf(e.task)]

C4_Witness ==
    /\ op = "fetchMany" /\ pc = "resolved"
    /\ Len(apiCalls) = 3
    /\ \E a, b \in SeqRange(result) :
          /\ IssueNumberOf(a.task) > 2 * paramsCount
          /\ IssueNumberOf(b.task) < paramsCount
          /\ a.issue.number = IssueNumberOf(a.task)
          /\ b.issue.number = IssueNumberOf(b.task)

\* the payload the claim describes for an issue
ChangesAsSpecified(changes, issue) ==
    /\ changes.issueWasUpdated = TRUE
    /\ changes.issuePoints = issue.weight
    /\ changes.title = <<"#">> \o NumToString(issue.number) \o <<" ">> \o issue.title
    /\ changes.issueLastUpdated = getTime(issue.updated_at)

\* C5: when a change is detected, taskChanges has issueWasUpdated = true,
\* issuePoints = issue.weight, title = '#<number> <title>' and
\* issueLastUpdated = the issue's own updated_at time, never a comment's.
C5_PayloadOfAChange ==
    /\ (op = "fetchOne" /\ pc = "resolved" /\ result # None) =>
            /\ result[1].issue = remote[IssueNumberOf(task)]
            /\ ChangesAsSpecified(result[1].taskChanges, result[1].issue)
    /\ (op = "fetchMany" /\ pc = "resolved") =>
            \A e \in SeqRange(result) : ChangesAsSpecified(e.taskChanges, e.issue)

\* a change found only through a comment that is newer than updated_at
C5_Witness ==
    /\ op = "fetchOne" /\ pc = "resolved" /\ result # None
    /\ getTime(result[1].issue.updated_at) <= OrZero(task.issueLastUpdated)
    /\ checked[1].lastRemoteUpdate > getTime(result[1].issue.updated_at)
    /\ result[1].taskChanges.issueLastUpdated = getTime(result[1].issue.updated_at)

\* the configured filter is in force: a username of more than one character
FilterInForce == Truthy(cfg[1].filterUsername) /\ Len(cfg[1].filterUsername[1]) > 1

\* the positions of the issue's comments that take part in the comparison
KeptPositions(issue) ==
    {j \in 1..Len(issue.comments) :
        ~(FilterInForce /\ issue.comments[j].author.username = cfg[1].filterUsername[1])}

\* C6: a comment is left out of the comparison if and only if its author is
\* filterUsername and filterUsername is longer than one character.
C6_FilterOnlyLongUsernames ==
    (op \in {"fetchOne", "fetchMany"} /\ pc = "resolved") =>
        \A k \in 1..Len(checked) :
            LET d == checked[k]
                kept == KeptPositions(d.issue)
            IN  /\ Len(d.commentsByOthers) = Cardinality(kept)
                /\ \A j \in kept : d.issue.comments[j] \in SeqRange(d.commentsByOthers)
                /\ \A comment \in SeqRange(d.commentsByOthers) :
                      \E j \in kept : d.issue.comments[j] = comment
                /\ Len(d.updates) = Cardinality(kept) + 1
                /\ SeqRange(d.updates) =
                      {getTime(d.issue.updated_at)}
                      \cup {getTime(d.issue.comments[j].created_at) : j \in kept}

\* a single-character filter: the comment of that very author is compared
C6_Witness ==
    /\ op = "fetchOne" /\ pc = "resolved"
    /\ cfg[1].filterUsername = Some(UserA)
    /\ \E comment \in SeqRange(checked[1].commentsByOthers) :
          comment.author.username = UserA

\* C7: a failed getByIds call fails the whole fetchMany: nothing is returned
\* and no further call is made.
C7_FailedChunkFailsAll ==
    op = "fetchMany" =>
        \A k \in 1..Len(apiCalls) :
            apiCalls[k].status = "failed" =>
                /\ k = Len(apiCalls)
                /\ pc = "rejected"
                /\ error = Some("remote")
                /\ result = <<>>

\* the second chunk fails after the first one was fetched
C7_Witness ==
    /\ op = "fetchMany" /\ pc = "rejected"
    /\ Len(apiCalls) = 2
    /\ apiCalls[2].status = "failed"
    /\ Len(issues) = paramsCount
    /\ i < Len(tasks)
    /\ result = <<>>

\* C8: searchIssues$ always delivers one result and never an error: an empty
\* list without an API call when search is not permitted, an empty list when
\* the API client's search fails.
C8_SearchAlwaysDeliversAList ==
    (op = "search" /\ pc = "completed") =>
        /\ error = None
        /\ Len(emitted) = 1
        /\ ~SearchPermitted(cfg) => (emitted[1] = <<>> /\ apiCalls = <<>>)
        /\ (apiCalls # <<>> /\ apiCalls[1].status = "failed") => emitted[1] = <<>>

\* C9: fetchOne and fetchMany leave the caller's task and task list, the
\* order of its elements included, as they were.
C9_NoLocalMutation == [][tasks' = tasks /\ task' = task]_vars

RECURSIVE StripTrailingSlashes(_)
StripTrailingSlashes(url) ==
    IF url # <<>> /\ url[Len(url)] = "/"
    THEN StripTrailingSlashes(SubSeq(url, 1, Len(url) - 1))
    ELSE url

\* C10: with a custom base URL the link is the base with exactly one
\* trailing slash, then '<project>/issues/<issueId>' with the project as
\* configured; without one it is the default host followed by the project
\* with every '%2F' decoded.
C10_ExactlyOneSlash ==
    (op = "link" /\ pc = "completed") =>
        result[1] =
            IF Truthy(cfg[1].gitlabBaseUrl)
            THEN StripTrailingSlashes(cfg[1].gitlabBaseUrl[1]) \o <<"/">>
                 \o cfg[1].project \o IssuesPath(linkArg)
            ELSE GITLAB_BASE_URL \o DecodeSlashes(cfg[1].project) \o IssuesPath(linkArg)

====
